---- MODULE Spec2Model ----
(***************************************************************************)
(* BohmianEngine (QuantumWebApp/phys-eng-bohm.js): complex arithmetic, the *)
(* Gaussian wave packet and its gradient, and the Euler loop of            *)
(* runSimulation.                                                          *)
(*                                                                         *)
(* JavaScript numbers are IEEE-754 binary floating-point values.  The      *)
(* model keeps that arithmetic (round to nearest, ties to even, gradual    *)
(* underflow, overflow to Infinity, NaN) in a scaled-down format: a finite *)
(* number is the integer n standing for n / 2^FracBits, with at most       *)
(* Precision significant bits and a binary exponent of at most MaxExp.     *)
(* The sign of zero is not kept: the program never observes it (=== does   *)
(* not distinguish the zeros, and every zero it divides by is a square or  *)
(* a guarded denominator, hence +0).                                       *)
(***************************************************************************)
EXTENDS Integers, Sequences, FiniteSets, TLC

\* ------------------------------------------------------------------------
\* The number format.
\* ------------------------------------------------------------------------
Precision == 4
FracBits == 6
MaxExp == 9

MaxN == (2^Precision - 1) * 2^MaxExp
One == 2^FracBits

\* Values that are not finite numbers, and JavaScript's undefined.
PosInf == 1000000
NegInf == -1000000
NaN == 2000000
Undefined == 3000000

IsFinite(a) == a >= -MaxN /\ a <= MaxN

Abs(n) == IF n < 0 THEN -n ELSE n

Sign(n) == IF n < 0 THEN -1 ELSE 1

RECURSIVE BitLen(_)
BitLen(n) == IF n = 0 THEN 0 ELSE 1 + BitLen(n \div 2)

\* The infinity of p's sign.
Overflow(p) == IF p < 0 THEN NegInf ELSE PosInf

\* The number of low bits a magnitude f has beyond the precision.
Shift(f) == IF BitLen(f) > Precision THEN BitLen(f) - Precision ELSE 0

\* lo or lo + 1, the nearer to lo + rem / d, the even one at a tie.
Nearest(lo, rem, d) ==
    IF 2 * rem > d \/ (2 * rem = d /\ lo % 2 = 1) THEN lo + 1 ELSE lo

\* n, of p's sign, or an infinity when n is beyond the largest number.
Clip(p, n) == IF n > MaxN THEN Overflow(p) ELSE Sign(p) * n

\* a / q rounded to a multiple of 2^k.
RoundAt(p, a, q, k) ==
    IF k > MaxExp
    THEN Overflow(p)
    ELSE Clip(p, Nearest(a \div (q * 2^k), a % (q * 2^k), q * 2^k) * 2^k)

\* The exact rational p / q (q > 0), in units of 2^-FracBits, rounded to the
\* nearest representable number, ties to even; overflow gives an infinity.
Round(p, q) == RoundAt(p, Abs(p), q, Shift(Abs(p) \div q))

FNeg(a) ==
    IF a = NaN THEN NaN
    ELSE IF a = PosInf THEN NegInf
    ELSE IF a = NegInf THEN PosInf
    ELSE -a

FAdd(a, b) ==
    IF a = NaN \/ b = NaN THEN NaN
    ELSE IF ~IsFinite(a) /\ ~IsFinite(b) THEN (IF a = b THEN a ELSE NaN)
    ELSE IF ~IsFinite(a) THEN a
    ELSE IF ~IsFinite(b) THEN b
    ELSE Round(a + b, 1)

FSub(a, b) == FAdd(a, FNeg(b))

FMul(a, b) ==
    IF a = NaN \/ b = NaN THEN NaN
    ELSE IF ~IsFinite(a) \/ ~IsFinite(b)
         THEN (IF a = 0 \/ b = 0 THEN NaN
               ELSE IF (a < 0) = (b < 0) THEN PosInf ELSE NegInf)
    ELSE Round(a * b, One)

\* A zero divisor is +0 wherever the program divides (see the module comment).
FDiv(a, b) ==
    IF a = NaN \/ b = NaN THEN NaN
    ELSE IF ~IsFinite(a)
         THEN (IF ~IsFinite(b) THEN NaN
               ELSE IF (a < 0) = (b < 0) THEN PosInf ELSE NegInf)
    ELSE IF ~IsFinite(b) THEN 0
    ELSE IF b = 0
         THEN (IF a = 0 THEN NaN ELSE IF a < 0 THEN NegInf ELSE PosInf)
    ELSE Round(Sign(b) * a * One, Abs(b))


\* ------------------------------------------------------------------------
\* Math.exp, Math.cos, Math.sin: the function's value at each representable
\* argument, rounded to the number format.
\* ------------------------------------------------------------------------
ExpTable ==
    -7680 :> 0 @@ -7168 :> 0 @@ -6656 :> 0 @@ -6144 :> 0 @@ -5632 :> 0 @@ -5120 :> 0 @@
    -4608 :> 0 @@ -4096 :> 0 @@ -3840 :> 0 @@ -3584 :> 0 @@ -3328 :> 0 @@ -3072 :> 0 @@
    -2816 :> 0 @@ -2560 :> 0 @@ -2304 :> 0 @@ -2048 :> 0 @@ -1920 :> 0 @@ -1792 :> 0 @@
    -1664 :> 0 @@ -1536 :> 0 @@ -1408 :> 0 @@ -1280 :> 0 @@ -1152 :> 0 @@ -1024 :> 0 @@
    -960 :> 0 @@ -896 :> 0 @@ -832 :> 0 @@ -768 :> 0 @@ -704 :> 0 @@ -640 :> 0 @@
    -576 :> 0 @@ -512 :> 0 @@ -480 :> 0 @@ -448 :> 0 @@ -416 :> 0 @@ -384 :> 0 @@
    -352 :> 0 @@ -320 :> 0 @@ -288 :> 1 @@ -256 :> 1 @@ -240 :> 2 @@ -224 :> 2 @@
    -208 :> 2 @@ -192 :> 3 @@ -176 :> 4 @@ -160 :> 5 @@ -144 :> 7 @@ -128 :> 9 @@
    -120 :> 10 @@ -112 :> 11 @@ -104 :> 13 @@ -96 :> 14 @@ -88 :> 16 @@ -80 :> 18 @@
    -72 :> 20 @@ -64 :> 24 @@ -60 :> 26 @@ -56 :> 26 @@ -52 :> 28 @@ -48 :> 30 @@
    -44 :> 32 @@ -40 :> 36 @@ -36 :> 36 @@ -32 :> 40 @@ -30 :> 40 @@ -28 :> 40 @@
    -26 :> 44 @@ -24 :> 44 @@ -22 :> 44 @@ -20 :> 48 @@ -18 :> 48 @@ -16 :> 48 @@
    -15 :> 52 @@ -14 :> 52 @@ -13 :> 52 @@ -12 :> 52 @@ -11 :> 52 @@ -10 :> 56 @@
    -9 :> 56 @@ -8 :> 56 @@ -7 :> 56 @@ -6 :> 60 @@ -5 :> 60 @@ -4 :> 60 @@
    -3 :> 60 @@ -2 :> 64 @@ -1 :> 64 @@ 0 :> 64 @@ 1 :> 64 @@ 2 :> 64 @@
    3 :> 64 @@ 4 :> 72 @@ 5 :> 72 @@ 6 :> 72 @@ 7 :> 72 @@ 8 :> 72 @@
    9 :> 72 @@ 10 :> 72 @@ 11 :> 80 @@ 12 :> 80 @@ 13 :> 80 @@ 14 :> 80 @@
    15 :> 80 @@ 16 :> 80 @@ 18 :> 88 @@ 20 :> 88 @@ 22 :> 88 @@ 24 :> 96 @@
    26 :> 96 @@ 28 :> 96 @@ 30 :> 104 @@ 32 :> 104 @@ 36 :> 112 @@ 40 :> 120 @@
    44 :> 128 @@ 48 :> 128 @@ 52 :> 144 @@ 56 :> 160 @@ 60 :> 160 @@ 64 :> 176 @@
    72 :> 192 @@ 80 :> 224 @@ 88 :> 256 @@ 96 :> 288 @@ 104 :> 320 @@ 112 :> 384 @@
    120 :> 416 @@ 128 :> 480 @@ 144 :> 576 @@ 160 :> 768 @@ 176 :> 1024 @@ 192 :> 1280 @@
    208 :> 1664 @@ 224 :> 2048 @@ 240 :> 2816 @@ 256 :> 3584 @@ 288 :> 5632 @@ 320 :> PosInf @@
    352 :> PosInf @@ 384 :> PosInf @@ 416 :> PosInf @@ 448 :> PosInf @@ 480 :> PosInf @@ 512 :> PosInf @@
    576 :> PosInf @@ 640 :> PosInf @@ 704 :> PosInf @@ 768 :> PosInf @@ 832 :> PosInf @@ 896 :> PosInf @@
    960 :> PosInf @@ 1024 :> PosInf @@ 1152 :> PosInf @@ 1280 :> PosInf @@ 1408 :> PosInf @@ 1536 :> PosInf @@
    1664 :> PosInf @@ 1792 :> PosInf @@ 1920 :> PosInf @@ 2048 :> PosInf @@ 2304 :> PosInf @@ 2560 :> PosInf @@
    2816 :> PosInf @@ 3072 :> PosInf @@ 3328 :> PosInf @@ 3584 :> PosInf @@ 3840 :> PosInf @@ 4096 :> PosInf @@
    4608 :> PosInf @@ 5120 :> PosInf @@ 5632 :> PosInf @@ 6144 :> PosInf @@ 6656 :> PosInf @@ 7168 :> PosInf @@
    7680 :> PosInf

CosTable ==
    0 :> 64 @@ 1 :> 64 @@ 2 :> 64 @@ 3 :> 64 @@ 4 :> 64 @@ 5 :> 64 @@
    6 :> 64 @@ 7 :> 64 @@ 8 :> 64 @@ 9 :> 64 @@ 10 :> 64 @@ 11 :> 64 @@
    12 :> 64 @@ 13 :> 64 @@ 14 :> 64 @@ 15 :> 64 @@ 16 :> 64 @@ 18 :> 60 @@
    20 :> 60 @@ 22 :> 60 @@ 24 :> 60 @@ 26 :> 60 @@ 28 :> 56 @@ 30 :> 56 @@
    32 :> 56 @@ 36 :> 56 @@ 40 :> 52 @@ 44 :> 48 @@ 48 :> 48 @@ 52 :> 44 @@
    56 :> 40 @@ 60 :> 36 @@ 64 :> 36 @@ 72 :> 28 @@ 80 :> 20 @@ 88 :> 12 @@
    96 :> 5 @@ 104 :> -3 @@ 112 :> -11 @@ 120 :> -20 @@ 128 :> -26 @@ 144 :> -40 @@
    160 :> -52 @@ 176 :> -60 @@ 192 :> -64 @@ 208 :> -64 @@ 224 :> -60 @@ 240 :> -52 @@
    256 :> -40 @@ 288 :> -13 @@ 320 :> 18 @@ 352 :> 44 @@ 384 :> 60 @@ 416 :> 64 @@
    448 :> 48 @@ 480 :> 22 @@ 512 :> -9 @@ 576 :> -60 @@ 640 :> -52 @@ 704 :> 0 @@
    768 :> 56 @@ 832 :> 60 @@ 896 :> 9 @@ 960 :> -48 @@ 1024 :> -60 @@ 1152 :> 44 @@
    1280 :> 26 @@ 1408 :> -64 @@ 1536 :> 28 @@ 1664 :> 40 @@ 1792 :> -60 @@ 1920 :> 10 @@
    2048 :> 52 @@ 2304 :> -8 @@ 2560 :> -44 @@ 2816 :> 64 @@ 3072 :> -40 @@ 3328 :> -10 @@
    3584 :> 56 @@ 3840 :> -60 @@ 4096 :> 26 @@ 4608 :> -60 @@ 5120 :> -7 @@ 5632 :> 64 @@
    6144 :> -12 @@ 6656 :> -60 @@ 7168 :> 30 @@ 7680 :> 52

SinTable ==
    0 :> 0 @@ 1 :> 1 @@ 2 :> 2 @@ 3 :> 3 @@ 4 :> 4 @@ 5 :> 5 @@
    6 :> 6 @@ 7 :> 7 @@ 8 :> 8 @@ 9 :> 9 @@ 10 :> 10 @@ 11 :> 11 @@
    12 :> 12 @@ 13 :> 13 @@ 14 :> 14 @@ 15 :> 15 @@ 16 :> 16 @@ 18 :> 18 @@
    20 :> 20 @@ 22 :> 22 @@ 24 :> 24 @@ 26 :> 26 @@ 28 :> 28 @@ 30 :> 28 @@
    32 :> 30 @@ 36 :> 36 @@ 40 :> 36 @@ 44 :> 40 @@ 48 :> 44 @@ 52 :> 48 @@
    56 :> 48 @@ 60 :> 52 @@ 64 :> 52 @@ 72 :> 56 @@ 80 :> 60 @@ 88 :> 64 @@
    96 :> 64 @@ 104 :> 64 @@ 112 :> 64 @@ 120 :> 60 @@ 128 :> 60 @@ 144 :> 48 @@
    160 :> 40 @@ 176 :> 24 @@ 192 :> 9 @@ 208 :> -7 @@ 224 :> -22 @@ 240 :> -36 @@
    256 :> -48 @@ 288 :> -64 @@ 320 :> -60 @@ 352 :> -44 @@ 384 :> -18 @@ 416 :> 14 @@
    448 :> 44 @@ 480 :> 60 @@ 512 :> 64 @@ 576 :> 26 @@ 640 :> -36 @@ 704 :> -64 @@
    768 :> -36 @@ 832 :> 26 @@ 896 :> 64 @@ 960 :> 40 @@ 1024 :> -18 @@ 1152 :> -48 @@
    1280 :> 60 @@ 1408 :> -1 @@ 1536 :> -56 @@ 1664 :> 48 @@ 1792 :> 18 @@ 1920 :> -64 @@
    2048 :> 36 @@ 2304 :> -64 @@ 2560 :> 48 @@ 2816 :> 1 @@ 3072 :> -48 @@ 3328 :> 64 @@
    3584 :> -32 @@ 3840 :> -20 @@ 4096 :> 60 @@ 4608 :> 16 @@ 5120 :> -64 @@ 5632 :> 2 @@
    6144 :> 64 @@ 6656 :> -20 @@ 7168 :> -56 @@ 7680 :> 36

MathExp(a) ==
    IF a = NaN THEN NaN
    ELSE IF a = PosInf THEN PosInf
    ELSE IF a = NegInf THEN 0
    ELSE ExpTable[a]

MathCos(a) == IF IsFinite(a) THEN CosTable[Abs(a)] ELSE NaN

MathSin(a) ==
    IF IsFinite(a) THEN (IF a < 0 THEN -SinTable[-a] ELSE SinTable[a]) ELSE NaN

\* ------------------------------------------------------------------------
\* Physical constants.
\* ------------------------------------------------------------------------
H_BAR == One
MASS == One

\* ------------------------------------------------------------------------
\* Part 1: complex number helpers.
\* ------------------------------------------------------------------------
complex(re, im) == [re |-> re, im |-> im]

add(a, b) == complex(FAdd(a.re, b.re), FAdd(a.im, b.im))

\* multiply with the sign of the real part's second product flipped.
multiplyPlus(a, b) ==
    complex(FAdd(FMul(a.re, b.re), FMul(a.im, b.im)),
            FAdd(FMul(a.re, b.im), FMul(a.im, b.re)))

multiply(a, b) ==
    complex(FSub(FMul(a.re, b.re), FMul(a.im, b.im)),
            FAdd(FMul(a.re, b.im), FMul(a.im, b.re)))

\* The quotient a / b, given b.re * b.re + b.im * b.im.
Quotient(a, b, denominator) ==
    complex(FDiv(FAdd(FMul(a.re, b.re), FMul(a.im, b.im)), denominator),
            FDiv(FSub(FMul(a.im, b.re), FMul(a.re, b.im)), denominator))

\* The zero-denominator branch of divide.
QuotientOrZero(a, b, denominator) ==
    IF denominator = 0 THEN complex(0, 0) ELSE Quotient(a, b, denominator)

\* divide without the zero-denominator branch.
divideUnguarded(a, b) ==
    Quotient(a, b, FAdd(FMul(b.re, b.re), FMul(b.im, b.im)))

divide(a, b) ==
    QuotientOrZero(a, b, FAdd(FMul(b.re, b.re), FMul(b.im, b.im)))

\* ------------------------------------------------------------------------
\* Part 2: the wave function.
\* ------------------------------------------------------------------------
\* e^(i*theta)
Phase(phaseAngle) == complex(MathCos(phaseAngle), MathSin(phaseAngle))

\* The packet's value, given dx = x - centerX and dy = y - centerY.
PacketAt(dx, dy, params) ==
    multiply(
        complex(MathExp(FDiv(FNeg(FAdd(FMul(dx, dx), FMul(dy, dy))),
                             FMul(4 * One, FMul(params.width, params.width)))),
                0),
        Phase(FDiv(FAdd(FMul(params.momentumX, dx), FMul(params.momentumY, dy)),
                   H_BAR)))

gaussianPacket(x, y, params) ==
    PacketAt(FSub(x, params.centerX), FSub(y, params.centerY), params)

\* [dPsi_dx, dPsi_dy], given psi and widthSq.
GradientOf(psi, x, y, params, widthSq) ==
    <<multiply(psi,
               complex(FDiv(FNeg(FSub(x, params.centerX)), FMul(2 * One, widthSq)),
                       FDiv(params.momentumX, H_BAR))),
      multiply(psi,
               complex(FDiv(FNeg(FSub(y, params.centerY)), FMul(2 * One, widthSq)),
                       FDiv(params.momentumY, H_BAR)))>>

gaussianPacketGradient(x, y, params) ==
    GradientOf(gaussianPacket(x, y, params), x, y, params,
               FMul(params.width, params.width))

\* ------------------------------------------------------------------------
\* Objects.  An object is a function from its property names to values; the
\* heap is the sequence of the objects allocated so far and a reference is
\* an index into it.
\* ------------------------------------------------------------------------
Get(obj, f) == IF f \in DOMAIN obj THEN obj[f] ELSE Undefined

NewObject(h, obj) == [heap |-> Append(h, obj), ref |-> Len(h) + 1]

\* currentPosition = initialPosition: the same object, not a copy.
SpreadAlias(h, ref) == [heap |-> h, ref |-> ref]

\* { ...obj }: a new object with obj's own properties.
SpreadCopy(h, ref) == NewObject(h, h[ref])

\* { t: currentTime, ...currentPosition }: the spread properties are written
\* after t.
InitialSample(h, t, posRef) == NewObject(h, h[posRef] @@ [t |-> t])

\* currentPosition.t = t; the entry is the position object itself.
SampleAlias(h, t, posRef) ==
    [heap |-> [h EXCEPT ![posRef] = [t |-> t] @@ h[posRef]], ref |-> posRef]

\* { t: currentTime, x: currentPosition.x, y: currentPosition.y }
SampleEntry(h, t, posRef) ==
    NewObject(h, [t |-> t, x |-> Get(h[posRef], "x"), y |-> Get(h[posRef], "y")])

\* trajectory.unshift(entry)
Unshift(traj, ref) == <<ref>> \o traj

\* trajectory.push(entry)
Push(traj, ref) == Append(traj, ref)

\* i <= steps
LoopCondInclusive(k, steps) == k <= steps

\* The loop condition i < steps.
LoopCond(k, steps) == k < steps

\* currentTime = dt
AdvanceTimeAssign(t, dt) == dt

\* currentTime += dt
AdvanceTime(t, dt) == FAdd(t, dt)

\* ------------------------------------------------------------------------
\* Part 3: the guiding equation and the Euler step.
\* ------------------------------------------------------------------------
\* Steps 3 and 4 of the loop body, given the total wave function and the two
\* gradients.
GuidingVelocity(totalPsi, grad1, grad2) ==
    [totalPsi |-> totalPsi,
     velocityX |->
        FMul(FDiv(H_BAR, MASS), divide(add(grad1[1], grad2[1]), totalPsi).im),
     velocityY |->
        FMul(FDiv(H_BAR, MASS), divide(add(grad1[2], grad2[2]), totalPsi).im)]

\* Steps 1 to 4 of the loop body, at the position (x, y).
Velocity(x, y, slit1, slit2) ==
    GuidingVelocity(add(gaussianPacket(x, y, slit1), gaussianPacket(x, y, slit2)),
                    gaussianPacketGradient(x, y, slit1),
                    gaussianPacketGradient(x, y, slit2))

\* Step 5 of the loop body: the new x and y, given the velocity v.
Advance(x, y, v, dt) ==
    [locals |-> v,
     x |-> FAdd(x, FMul(v.velocityX, dt)),
     y |-> FAdd(y, FMul(v.velocityY, dt))]

\* The y update with the y velocity of vy, taken at the updated x.
AdvanceY(s, y, vy, dt) ==
    [locals |-> [s.locals EXCEPT !.velocityY = vy.velocityY],
     x |-> s.x,
     y |-> FAdd(y, FMul(vy.velocityY, dt))]

\* The x update with the velocity vx; y is left for AdvanceY.
AdvanceX(x, y, vx, dt) ==
    [locals |-> vx, x |-> FAdd(x, FMul(vx.velocityX, dt)), y |-> y]

\* The y velocity evaluated after the x update.
SequentialFrom(s, y, slit1, slit2, dt) ==
    AdvanceY(s, y, Velocity(s.x, y, slit1, slit2), dt)

\* The x update first, then the y velocity taken at the updated x.
EulerStepSequential(x, y, slit1, slit2, dt) ==
    SequentialFrom(AdvanceX(x, y, Velocity(x, y, slit1, slit2), dt), y,
                   slit1, slit2, dt)

\* Steps 1 to 5 of the loop body from the position (x, y).
EulerStep(x, y, slit1, slit2, dt) ==
    Advance(x, y, Velocity(x, y, slit1, slit2), dt)

\* ------------------------------------------------------------------------
\* Bounds and inputs.
\* ------------------------------------------------------------------------
MaxSteps == 3

\* n / d as a number of the format (d a power of two).
Num(n, d) == (n * One) \div d

PacketParams(cx, cy, w, px, py) ==
    [centerX |-> cx, centerY |-> cy, width |-> w, momentumX |-> px,
     momentumY |-> py]

\* Two slits as in the example usage, a narrow and a wide packet with
\* momentum along x, and two packets of non-positive width.
Slits ==
    {PacketParams(0, Num(3, 2), One, 0, 5 * One),
     PacketParams(0, Num(-3, 2), One, 0, 5 * One),
     PacketParams(0, Num(-3, 2), Num(1, 2), One, 5 * One),
     PacketParams(Num(1, 2), Num(3, 2), 2 * One, One, One),
     PacketParams(0, Num(3, 2), 0, 0, 5 * One),
     PacketParams(0, Num(-3, 2), -One, 0, 5 * One)}

Positions ==
    [x : {Num(-1, 2), 0}, y : {-5 * One, Num(-3, 2), 0, One}]

TimeSteps == {Num(1, 4), Num(13, 64), 0, Num(-1, 4)}

StepCounts == -1..MaxSteps

ComplexParts == {0, 1, One, 2 * One, 3 * One, -One, -4 * One, PosInf, NaN}

ComplexValues == [re : ComplexParts, im : ComplexParts]

\* ------------------------------------------------------------------------
\* State.
\* ------------------------------------------------------------------------
VARIABLES
    heap,             \* the objects
    config,           \* runSimulation's argument
    pc,               \* "call", "loop", "done"; "arith" outside a run
    i,                \* the loop counter
    currentTime,
    currentPosition,  \* reference to the position object
    trajectory,       \* sequence of references to the entries
    locals,           \* totalPsi, velocityX, velocityY of the last iteration
    op,               \* the complex helper applied, "none" before
    argA, argB,       \* its arguments
    result            \* its return value

vars ==
    <<heap, config, pc, i, currentTime, currentPosition, trajectory, locals,
      op, argA, argB, result>>

simVars ==
    <<heap, config, pc, i, currentTime, currentPosition, trajectory, locals>>

arithVars == <<op, argA, argB, result>>

NoLocals ==
    [totalPsi |-> complex(Undefined, Undefined),
     velocityX |-> Undefined, velocityY |-> Undefined]

\* The caller's configuration object, before runSimulation is entered.
ConfigInit(pos, s1, s2, dt, steps) ==
    /\ heap = <<pos, s1, s2>>
    /\ config = [initialPosition |-> 1, slit1 |-> 2, slit2 |-> 3,
                 dt |-> dt, steps |-> steps]
    /\ i = Undefined
    /\ currentTime = Undefined
    /\ currentPosition = Undefined
    /\ trajectory = <<>>
    /\ locals = NoLocals

Init ==
    /\ \E pos \in Positions, s1 \in Slits, s2 \in Slits,
          dt \in TimeSteps, steps \in StepCounts :
          ConfigInit(pos, s1, s2, dt, steps)
    /\ pc = "call"
    /\ op = "none"
    /\ argA = complex(0, 0)
    /\ argB = complex(0, 0)
    /\ result = Undefined

\* runSimulation, lines 125-131: destructuring, the initial sample, i = 0.
Start ==
    /\ pc = "call"
    /\ LET cp == SpreadCopy(heap, config.initialPosition)
           e == InitialSample(cp.heap, 0, cp.ref)
       IN  /\ currentTime' = 0
           /\ currentPosition' = cp.ref
           /\ heap' = e.heap
           /\ trajectory' = <<e.ref>>
    /\ i' = 0
    /\ pc' = "loop"
    /\ UNCHANGED <<config, locals, arithVars>>

\* currentPosition.x += ...; currentPosition.y += ...
MovePosition(h, posRef, s) ==
    [h EXCEPT ![posRef] = [x |-> s.x, y |-> s.y] @@ h[posRef]]

\* Steps 5 and 6 of an iteration, given the Euler step s and the new time t.
Record(s, t) ==
    /\ locals' = s.locals
    /\ currentTime' = t
    /\ heap' = SampleEntry(MovePosition(heap, currentPosition, s), t,
                           currentPosition).heap
    /\ trajectory' =
          Push(trajectory,
               SampleEntry(MovePosition(heap, currentPosition, s), t,
                           currentPosition).ref)

\* One iteration of the for loop, lines 131-160.
Iterate ==
    /\ pc = "loop"
    /\ LoopCond(i, config.steps)
    /\ Record(EulerStep(Get(heap[currentPosition], "x"),
                        Get(heap[currentPosition], "y"),
                        heap[config.slit1], heap[config.slit2], config.dt),
              AdvanceTime(currentTime, config.dt))
    /\ i' = i + 1
    /\ UNCHANGED <<config, pc, currentPosition, arithVars>>

\* The loop condition is false: return trajectory, line 162.
Return ==
    /\ pc = "loop"
    /\ ~LoopCond(i, config.steps)
    /\ pc' = "done"
    /\ UNCHANGED <<heap, config, i, currentTime, currentPosition, trajectory,
                   locals, arithVars>>

Next == Start \/ Iterate \/ Return

Spec == Init /\ [][Next]_vars

\* ------------------------------------------------------------------------
\* The complex helpers on their own, applied to arbitrary arguments.
\* ------------------------------------------------------------------------
InitArith ==
    /\ ConfigInit([x |-> 0, y |-> 0], PacketParams(0, 0, One, 0, 0),
                  PacketParams(0, 0, One, 0, 0), One, 0)
    /\ pc = "arith"
    /\ op = "none"
    /\ argA \in ComplexValues
    /\ argB \in ComplexValues
    /\ result = Undefined

CallAdd ==
    /\ pc = "arith" /\ op = "none"
    /\ op' = "add"
    /\ result' = add(argA, argB)
    /\ UNCHANGED <<simVars, argA, argB>>

CallMultiply ==
    /\ pc = "arith" /\ op = "none"
    /\ op' = "multiply"
    /\ result' = multiply(argA, argB)
    /\ UNCHANGED <<simVars, argA, argB>>

CallDivide ==
    /\ pc = "arith" /\ op = "none"
    /\ op' = "divide"
    /\ result' = divide(argA, argB)
    /\ UNCHANGED <<simVars, argA, argB>>

NextArith == CallAdd \/ CallMultiply \/ CallDivide

SpecArith == InitArith /\ [][NextArith]_vars

\* ------------------------------------------------------------------------
\* Properties.
\* ------------------------------------------------------------------------
Entry(k) == heap[trajectory[k]]

EntryT(k) == Get(Entry(k), "t")

EntryX(k) == Get(Entry(k), "x")

EntryY(k) == Get(Entry(k), "y")

\* The configuration is valid: both widths > 0, dt > 0, steps >= 0.
ValidConfig ==
    /\ heap[config.slit1].width > 0
    /\ heap[config.slit2].width > 0
    /\ config.dt > 0
    /\ config.steps >= 0

Zero == complex(0, 0)

\* C1: for a valid configuration every step of the loop either counts one
\* more iteration (adding an entry) or returns without a change, the count
\* never passes steps, and at the return the loop has run exactly steps times
\* and the trajectory has steps + 1 entries (one entry when steps = 0).
C1_TrajectoryLength ==
    /\ [](ValidConfig =>
            /\ (pc = "done" =>
                  i = config.steps /\ Len(trajectory) = config.steps + 1)
            /\ (pc = "loop" =>
                  i >= 0 /\ i <= config.steps /\ Len(trajectory) = i + 1))
    /\ [][(ValidConfig /\ pc = "loop") =>
             \/ pc' = "loop" /\ i' = i + 1
             \/ pc' = "done" /\ i' = i /\ trajectory' = trajectory]_vars

C1_Witness ==
    /\ ValidConfig
    /\ pc = "done"
    /\ config.steps = MaxSteps
    /\ Len(trajectory) = MaxSteps + 1

\* C2: with an invalid configuration no iteration runs and no trajectory is
\* returned.
C2_ConfigErrorBeforeAnyStep ==
    ~ValidConfig => (pc = "loop" => i = 0) /\ pc # "done"

\* C3: once the trajectory exists its first entry is
\* {t: 0, x: initialPosition.x, y: initialPosition.y}, whatever has happened
\* to the position since.
C3_InitialSampleFidelity ==
    pc \in {"loop", "done"} =>
        /\ Len(trajectory) >= 1
        /\ Entry(1) = [t |-> 0,
                       x |-> Get(heap[config.initialPosition], "x"),
                       y |-> Get(heap[config.initialPosition], "y")]

C3_Witness ==
    /\ pc = "done"
    /\ Len(trajectory) >= 3
    /\ Get(heap[currentPosition], "y") # Get(heap[config.initialPosition], "y")
    /\ Get(heap[currentPosition], "x") # Get(heap[config.initialPosition], "x")

\* C4 as stated: consecutive times differ by exactly dt, entry k has
\* t = k * dt, and the times increase strictly.
C4_ExactTimeSpacing ==
    ValidConfig =>
        \A k \in 1..(Len(trajectory) - 1) :
            /\ FSub(EntryT(k + 1), EntryT(k)) = config.dt
            /\ EntryT(k + 1) = FMul(k * One, config.dt)
            /\ EntryT(k + 1) > EntryT(k)

\* C4 as amended: the first time is 0 and each later time is the
\* floating-point sum of the previous time and dt (so entry 1 has t = dt);
\* with dt > 0 the times never decrease.
C4_TimeAdvance ==
    pc \in {"loop", "done"} =>
        /\ EntryT(1) = 0
        /\ Len(trajectory) >= 2 => EntryT(2) = config.dt
        /\ \A k \in 1..(Len(trajectory) - 1) :
              /\ EntryT(k + 1) = FAdd(EntryT(k), config.dt)
              /\ ValidConfig => EntryT(k + 1) >= EntryT(k)

\* A run in which a sum of times was rounded.
C4_Witness ==
    /\ ValidConfig
    /\ Len(trajectory) >= 4
    /\ FSub(EntryT(4), EntryT(3)) # config.dt

\* C5 as stated: divide returns (0, 0) when b.re = 0 and b.im = 0, and the
\* quotient formula for every other b.
C5_ZeroOnlyForZeroDivisor ==
    op = "divide" =>
        LET d == FAdd(FMul(argB.re, argB.re), FMul(argB.im, argB.im))
        IN  IF argB.re = 0 /\ argB.im = 0
            THEN result = Zero
            ELSE result =
                   complex(FDiv(FAdd(FMul(argA.re, argB.re),
                                     FMul(argA.im, argB.im)), d),
                           FDiv(FSub(FMul(argA.im, argB.re),
                                     FMul(argA.re, argB.im)), d))

\* C5 as amended: divide returns (0, 0) whenever the computed
\* b.re*b.re + b.im*b.im is 0, which is so for b = (0, 0) and also for a
\* non-zero b whose squares underflow to 0; otherwise the quotient formula.
C5_DivideZeroDenominatorPolicy ==
    op = "divide" =>
        LET d == FAdd(FMul(argB.re, argB.re), FMul(argB.im, argB.im))
        IN  /\ (argB = Zero => result = Zero)
            /\ (d = 0 => result = Zero)
            /\ (d # 0 =>
                  /\ result.re = FDiv(FAdd(FMul(argA.re, argB.re),
                                           FMul(argA.im, argB.im)), d)
                  /\ result.im = FDiv(FSub(FMul(argA.im, argB.re),
                                           FMul(argA.re, argB.im)), d))

\* divide((1, 0), b) for a non-zero b whose square underflows.
C5_Witness ==
    /\ op = "divide"
    /\ argA = complex(One, 0)
    /\ argB = complex(1, 0)
    /\ result = Zero

\* C6: after an iteration in which the superposed wave function was (0, 0),
\* both velocities are 0, the new entry has the previous entry's x and y and
\* its t advanced by dt, and the loop has not been left early.
C6_NodeKeepsPosition ==
    (pc \in {"loop", "done"} /\ i >= 1 /\ locals.totalPsi = Zero) =>
        LET n == Len(trajectory)
        IN  /\ locals.velocityX = 0
            /\ locals.velocityY = 0
            /\ n = i + 1
            /\ EntryX(n) = EntryX(n - 1)
            /\ EntryY(n) = EntryY(n - 1)
            /\ EntryT(n) = FAdd(EntryT(n - 1), config.dt)
            /\ (pc = "done" => i >= config.steps)

C6_Witness ==
    /\ ValidConfig
    /\ pc = "loop"
    /\ i >= 1
    /\ i < config.steps
    /\ locals.totalPsi = Zero

\* C7: no step of a run changes the configuration: the initial position
\* object, the two slit objects, dt and steps.
ConfigValue ==
    [initialPosition |-> heap[config.initialPosition],
     slit1 |-> heap[config.slit1],
     slit2 |-> heap[config.slit2],
     dt |-> config.dt,
     steps |-> config.steps,
     refs |-> config]

C7_ConfigNotMutated == [][ConfigValue' = ConfigValue]_vars

C7_Witness ==
    /\ pc = "done"
    /\ i >= 2
    /\ Get(heap[currentPosition], "y") # Get(heap[config.initialPosition], "y")

\* C8: multiply and add return the stated components and leave their
\* arguments alone; multiply((2,3),(1,-1)) = (5,1), add((1,2),(3,-4)) = (4,-2).
C8_AddMultiply ==
    /\ [](op = "multiply" =>
            /\ result.re = FSub(FMul(argA.re, argB.re), FMul(argA.im, argB.im))
            /\ result.im = FAdd(FMul(argA.re, argB.im), FMul(argA.im, argB.re))
            /\ (argA = complex(2 * One, 3 * One) /\ argB = complex(One, -One)
                  => result = complex(5 * One, One)))
    /\ [](op = "add" =>
            /\ result.re = FAdd(argA.re, argB.re)
            /\ result.im = FAdd(argA.im, argB.im)
            /\ (argA = complex(One, 2 * One) /\ argB = complex(3 * One, -4 * One)
                  => result = complex(4 * One, -2 * One)))
    /\ [][argA' = argA /\ argB' = argB]_vars

C8_Witness ==
    /\ op = "multiply"
    /\ argA = complex(2 * One, 3 * One)
    /\ argB = complex(One, -One)
    /\ result = complex(5 * One, One)

\* C9: an iteration adds exactly one entry at the end, and no step changes
\* an entry that is already in the trajectory.
C9_AppendOnly ==
    [][/\ \A k \in 1..Len(trajectory) :
             /\ k <= Len(trajectory')
             /\ heap'[trajectory'[k]] = heap[trajectory[k]]
       /\ (pc = "loop" /\ i' # i) =>
             Len(trajectory') = Len(trajectory) + 1
       /\ (pc = "loop" /\ i' = i) => trajectory' = trajectory]_vars

C9_Witness ==
    /\ Len(trajectory) >= 3
    /\ EntryY(2) # EntryY(1)
    /\ EntryY(3) # EntryY(2)

\* C10: each entry after the first is the forward Euler step from the entry
\* before it, both velocities taken at that entry's position.
C10_ForwardEuler ==
    pc \in {"loop", "done"} =>
        \A k \in 1..(Len(trajectory) - 1) :
            LET v == Velocity(EntryX(k), EntryY(k), heap[config.slit1],
                              heap[config.slit2])
            IN  /\ EntryT(k + 1) = FAdd(EntryT(k), config.dt)
                /\ EntryX(k + 1) = FAdd(EntryX(k), FMul(v.velocityX, config.dt))
                /\ EntryY(k + 1) = FAdd(EntryY(k), FMul(v.velocityY, config.dt))
                /\ (k = Len(trajectory) - 1 =>
                      /\ locals.velocityX = v.velocityX
                      /\ locals.velocityY = v.velocityY)

C10_Witness ==
    /\ ValidConfig
    /\ Len(trajectory) >= 3
    /\ IsFinite(locals.velocityX) /\ locals.velocityX # 0
    /\ IsFinite(locals.velocityY) /\ locals.velocityY # 0
    /\ EntryX(2) # EntryX(1)
    /\ EntryY(2) # EntryY(1)
====
